---- MODULE Spec2Model ----
(***************************************************************************)
(* Model of the pareto service registry (service/registry.go) and of the  *)
(* tick-driven state machine (box/meta/machine.go).                        *)
(*                                                                         *)
(* Registry: the entry store, the heartbeat handler, the periodic sweep    *)
(* and the two query handlers.  Each handler is one action; what a handler *)
(* does, in the order it does it, is recorded in `events`.  SpecRace runs  *)
(* the heartbeat handler and the sweep as goroutines that interleave.      *)
(*                                                                         *)
(* State machine: SpecMachine is the machine as NewStateMachine builds it; *)
(* SpecRun is a configured machine with its loop goroutines, the ticker    *)
(* and a caller of Shutdown.                                               *)
(***************************************************************************)
EXTENDS Integers, Sequences, FiniteSets, TLC

VARIABLES
    services,   \* RegistryManager.services: name -> registry record
    now,        \* the wall clock read by box.TimeNowMs(), in ms
    op,         \* the handler that ran last and its input
    events,     \* what the last of handleStatus / checkTimeout did, in order
    reply,      \* the response of the last handler, when it is an RPC query
    \* ---- state machine (box/meta/machine.go) ----
    states,     \* StateMachine.states: name -> State
    starting,   \* StateMachine.starting
    stopping,   \* StateMachine.stopping
    saved,      \* StateMachine.saved
    current,    \* StateMachine.current (atomic.Value): Nil until first Store
    loops,      \* number of loop() goroutines started by Startup
    call,       \* the last public call on the machine and its argument
    ret,        \* what that call returned: "true", "false", "void" or "panic"
                \* ("pending" while Shutdown is blocked or asleep)
    loop,       \* the loop() goroutines: where each is, and its locals
    tickC,      \* StateMachine.ticker.C: number of ticks buffered (0 or 1)
    ticker,     \* StateMachine.ticker: "running" or "stopped"
    quit,       \* StateMachine.quit is closed
    stopped,    \* StateMachine.stopped is closed
    sd,         \* where the caller of StateMachine.Shutdown is
    runs,       \* state name -> number of completed runs of its Action
    got,        \* state name -> number of ticks State.trigger received
    nticks,     \* number of ticks the ticker has sent
    \* ---- registry, handler and sweep step by step ----
    hnd,        \* the goroutine in handleStatus: position, report, entry held
    swp,        \* the goroutine in checkTimeout: position, entry held
    timer,      \* RegistryManager.timer: "nil", "armed", "expired", "stopped"
    shut        \* RegistryManager.Shutdown has returned

regvars == <<services, now, op, events, reply>>
smvars  == <<states, starting, stopping, saved, current, loops, call, ret>>
runvars == <<loop, tickC, ticker, quit, stopped, sd, runs, got, nticks>>
racevars == <<hnd, swp, timer, shut>>
vars    == <<services, now, op, events, reply,
             states, starting, stopping, saved, current, loops, call, ret,
             loop, tickC, ticker, quit, stopped, sd, runs, got, nticks,
             hnd, swp, timer, shut>>

----------------------------------------------------------------------------
(* Bounds of the model *)

\* the clock starts here (epoch milliseconds, scaled down to fit TLC's integers)
StartTime == 100000
\* the clock advances in steps of this many ms
TickMs == 1000
\* number of clock steps explored
MaxTicks == 4

Names == {"alpha", "beta"}
Domains == {0}
CheckIntervals == {0, 1}
AllowFailuresSet == {0, 1}

----------------------------------------------------------------------------
(* service.State and the process-wide defaults *)

Starting == "Starting"
Online   == "Online"
Offline  == "Offline"
Stopped  == "Stopped"
State == {Starting, Online, Offline, Stopped}

\* default heartbeat interval, in seconds
StatusReportInterval == 2
\* default number of missed intervals tolerated
StatusLostThreshold == 2
\* default number of intervals an Offline entry is kept
ReviveWaitThreshold == 1

\* service.Status, the heartbeat payload
Status == [Name : Names, Domain : Domains, State : State, Ready : BOOLEAN,
           CheckInterval : CheckIntervals, AllowFailures : AllowFailuresSet]

----------------------------------------------------------------------------
(* registry: the per-service record and its methods *)

\* registry.timeout
timeout(r, t) == t - r.updateTime > r.interval * r.threshold

\* a dead() with the comparison turned round
dead_reversed(r, t) == t - r.offlineTime < r.interval * r.purgeDelay

\* registry.dead
dead(r, t) == t - r.offlineTime > r.interval * r.purgeDelay

\* an offline() that forgets to clear ready
offline_keepsReady(r, t) ==
    [r EXCEPT !.state = Offline, !.updateTime = t, !.offlineTime = t]

\* registry.offline
offline(r, t) ==
    [r EXCEPT !.state = Offline, !.ready = FALSE,
              !.updateTime = t, !.offlineTime = t]

\* registry.update: ready and offlineTime are not assigned
update(r, s, t) ==
    [r EXCEPT !.interval  = IF s.CheckInterval # 0 THEN s.CheckInterval ELSE @,
              !.threshold = IF s.AllowFailures # 0 THEN s.AllowFailures ELSE @,
              !.state = s.State,
              !.updateTime = t]

\* registry.toStatus
toStatus(r) ==
    [Name |-> r.name, Domain |-> r.domain, State |-> r.state,
     Ready |-> r.ready, Time |-> r.updateTime]

\* box.SetIfEq
SetIfEq(v, eq, new) == IF v = eq THEN new ELSE v

\* RegistryManager.registry: offlineTime and purgeDelay start as Go zero values
registry(status, t) ==
    [name |-> status.Name,
     domain |-> status.Domain,
     state |-> status.State,
     ready |-> status.Ready,
     updateTime |-> t,
     onlineTime |-> t,
     offlineTime |-> 0,
     interval |-> SetIfEq(status.CheckInterval * 1000, 0, StatusReportInterval * 1000),
     threshold |-> SetIfEq(status.AllowFailures, 0, StatusLostThreshold),
     purgeDelay |-> SetIfEq(0, 0, ReviveWaitThreshold)]

----------------------------------------------------------------------------
(* RegistryManager: the store and the handlers.  A handler maps the store   *)
(* to a record [services, events].                                          *)

\* sync.Map.Store
Store(svcs, k, v) == [n \in DOMAIN svcs \cup {k} |-> IF n = k THEN v ELSE svcs[n]]

\* sync.Map.Delete
Delete(svcs, k) == [n \in DOMAIN svcs \ {k} |-> svcs[n]]

\* RegistryManager.Registered
Registered(svcs, name) == name \in DOMAIN svcs

\* RegistryManager.Count
Count(svcs) == Cardinality(DOMAIN svcs)

\* RegistryManager.notifyWatched: logs old -> new, sends the new status
notifyWatched(reg, status) ==
    [kind |-> "notify", name |-> reg.name,
     oldState |-> reg.state, oldReady |-> reg.ready,
     newState |-> status.State, newReady |-> status.Ready]

\* RegistryManager.register
register(svcs, status, t) ==
    [services |-> Store(svcs, status.Name, registry(status, t)),
     events |-> <<[kind |-> "store", name |-> status.Name]>>]

\* RegistryManager.unregister
unregister(svcs, name) ==
    [services |-> Delete(svcs, name),
     events |-> <<[kind |-> "delete", name |-> name]>>]

\* an update() that de-registers before it notifies
ManagerUpdate_deleteFirst(svcs, reg, status, t) ==
    LET ev1  == IF reg.state # status.State \/ reg.ready # status.Ready
                THEN <<notifyWatched(reg, status)>> ELSE <<>>
        reg2 == update(reg, status, t)
        s2   == IF reg.name \in DOMAIN svcs
                THEN [svcs EXCEPT ![reg.name] = reg2]
                ELSE svcs
    IN  IF reg2.state = Stopped
        THEN LET u == unregister(s2, reg2.name)
             IN  [services |-> u.services, events |-> u.events \o ev1]
        ELSE [services |-> s2, events |-> ev1]

\* RegistryManager.update: reg is the stored pointer, so the store sees the
\* overwrite; when the key has been deleted the overwrite reaches no entry
ManagerUpdate(svcs, reg, status, t) ==
    LET ev1  == IF reg.state # status.State \/ reg.ready # status.Ready
                THEN <<notifyWatched(reg, status)>> ELSE <<>>
        reg2 == update(reg, status, t)
        s2   == IF reg.name \in DOMAIN svcs
                THEN [svcs EXCEPT ![reg.name] = reg2]
                ELSE svcs
    IN  IF reg2.state = Stopped
        THEN LET u == unregister(s2, reg2.name)
             IN  [services |-> u.services, events |-> ev1 \o u.events]
        ELSE [services |-> s2, events |-> ev1]

\* RegistryManager.handleStatus, for a payload that unmarshals to status
handleStatus(svcs, status, t) ==
    IF status.Name \in DOMAIN svcs
    THEN ManagerUpdate(svcs, svcs[status.Name], status, t)
    ELSE register(svcs, status, t)

\* one visit of the Range callback of RegistryManager.checkTimeout
visit(svcs, key, t) ==
    LET service == svcs[key]
    IN  IF service.state = Offline
        THEN IF dead(service, t)
             THEN [services |-> Delete(svcs, key),
                   events |-> <<[kind |-> "purge", name |-> key,
                                 offlineTime |-> service.offlineTime]>>]
             ELSE [services |-> svcs, events |-> <<>>]
        ELSE IF timeout(service, t)
             THEN LET old == service
                      new == offline(service, t)
                  IN  [services |-> [svcs EXCEPT ![key] = new],
                       events |-> <<notifyWatched(old, toStatus(new))>>]
             ELSE [services |-> svcs, events |-> <<>>]

\* RegistryManager.checkTimeout: sync.Map.Range visits the keys in some order
RECURSIVE checkTimeout(_, _, _)
checkTimeout(acc, keys, t) ==
    IF keys = <<>>
    THEN acc
    ELSE LET key == Head(keys)
         IN  IF key \in DOMAIN acc.services
             THEN LET v == visit(acc.services, key, t)
                  IN  checkTimeout([services |-> v.services,
                                    events |-> acc.events \o v.events],
                                   Tail(keys), t)
             ELSE checkTimeout(acc, Tail(keys), t)

\* the Status built by both query handlers from a registry record
snapshot(reg) ==
    [Name |-> reg.name, Domain |-> reg.domain, State |-> reg.state,
     Time |-> reg.updateTime, Ready |-> reg.ready]

\* a nil *registry
nil == [nil |-> TRUE]

\* RegistryManager.get
get(svcs, name) == IF name \in DOMAIN svcs THEN svcs[name] ELSE nil

\* RegistryManager.all: the records in the order Range visits them
all(svcs, keys) == [i \in 1..Len(keys) |-> svcs[keys[i]]]

\* RegistryManager.handleQueryStatus
handleQueryStatus(svcs, req) ==
    IF ~req.ok
    THEN [kind |-> "error", message |-> "ErrServerInvalidParameters"]
    ELSE IF get(svcs, req.Name) = nil
         THEN [kind |-> "error", message |-> "service name does not exist"]
         ELSE [kind |-> "status", status |-> snapshot(get(svcs, req.Name))]

\* the snapshots of the records of list named name, in list order
matching(list, name) ==
    LET hit == SelectSeq(list, LAMBDA reg : reg.name = name)
    IN  [i \in 1..Len(hit) |-> snapshot(hit[i])]

\* the whitelist loop of handleQueryStatusList
RECURSIVE observed(_, _)
observed(whitelist, list) ==
    IF whitelist = <<>>
    THEN <<>>
    ELSE matching(list, Head(whitelist)) \o observed(Tail(whitelist), list)

\* a handleQueryStatusList that ignores the whitelist
handleQueryStatusList_all(svcs, req, keys) ==
    IF ~req.ok
    THEN [kind |-> "error", message |-> "ErrServerInvalidParameters"]
    ELSE LET list == all(svcs, keys)
         IN  [kind |-> "list",
              services |-> [i \in 1..Len(list) |-> snapshot(list[i])]]

\* RegistryManager.handleQueryStatusList; keys is the order of all()
handleQueryStatusList(svcs, req, keys) ==
    IF ~req.ok
    THEN [kind |-> "error", message |-> "ErrServerInvalidParameters"]
    ELSE LET list == all(svcs, keys)
         IN  IF req.present /\ Len(req.Observed) # 0
             THEN [kind |-> "list", services |-> observed(req.Observed, list)]
             ELSE [kind |-> "list",
                   services |-> [i \in 1..Len(list) |-> snapshot(list[i])]]

----------------------------------------------------------------------------
(* The inputs explored *)

\* the heartbeats of the single-service specification
Heartbeats == {s \in Status : s.Name = "alpha"}

\* the heartbeats of the two-service specification: default check options
ListHeartbeats == {s \in Status : s.CheckInterval = 0 /\ s.AllowFailures = 0}

\* all orderings of a set of at most two keys
Orders(S) == {q \in UNION {[1..n -> S] : n \in 0..Cardinality(S)} :
                 /\ Len(q) = Cardinality(S)
                 /\ \A i, j \in 1..Len(q) : i # j => q[i] # q[j]}

\* QueryStatusReq
QueryStatusReqs == {[ok |-> TRUE, Name |-> n] : n \in Names} \cup {[ok |-> FALSE]}

\* QueryStatusListReq: Observed absent, empty, or up to two names
Whitelists == UNION {[1..n -> Names] : n \in 0..2}
QueryStatusListReqs ==
    {[ok |-> TRUE, present |-> TRUE, Observed |-> w] : w \in Whitelists}
    \cup {[ok |-> TRUE, present |-> FALSE, Observed |-> <<>>]}
    \cup {[ok |-> FALSE]}

----------------------------------------------------------------------------
RegInit ==
    /\ services = <<>>
    /\ now = StartTime
    /\ op = [name |-> "NewRegistryManager"]
    /\ events = <<>>
    /\ reply = [kind |-> "none"]

\* the wall clock moves on
Advance ==
    /\ now + TickMs <= StartTime + MaxTicks * TickMs
    /\ now' = now + TickMs
    /\ UNCHANGED <<services, op, events, reply>>
    /\ UNCHANGED <<smvars, runvars, racevars>>

\* a heartbeat drawn from S arrives on EndpointServiceStatus
HandleStatusOf(S) ==
    \E status \in S :
        LET r == handleStatus(services, status, now)
        IN  /\ services' = r.services
            /\ events' = r.events
            /\ op' = [name |-> "handleStatus", status |-> status]
            /\ reply' = [kind |-> "none"]
            /\ UNCHANGED now
            /\ UNCHANGED <<smvars, runvars, racevars>>

\* the sweep timer fires
Sweep ==
    \E keys \in Orders(DOMAIN services) :
        LET r == checkTimeout([services |-> services, events |-> <<>>], keys, now)
        IN  /\ services' = r.services
            /\ events' = r.events
            /\ op' = [name |-> "checkTimeout"]
            /\ reply' = [kind |-> "none"]
            /\ UNCHANGED now
            /\ UNCHANGED <<smvars, runvars, racevars>>

\* RPC QueryStatus
HandleQueryStatus ==
    \E req \in QueryStatusReqs :
        /\ reply' = handleQueryStatus(services, req)
        /\ op' = [name |-> "handleQueryStatus", req |-> req]
        /\ UNCHANGED <<services, now, events>>
        /\ UNCHANGED <<smvars, runvars, racevars>>

\* RPC QueryStatusList
HandleQueryStatusList ==
    \E req \in QueryStatusListReqs, keys \in Orders(DOMAIN services) :
        /\ reply' = handleQueryStatusList(services, req, keys)
        /\ op' = [name |-> "handleQueryStatusList", req |-> req]
        /\ UNCHANGED <<services, now, events>>
        /\ UNCHANGED <<smvars, runvars, racevars>>

HandleStatus == HandleStatusOf(Heartbeats)

----------------------------------------------------------------------------
(* The heartbeat handler and the sweep as goroutines that interleave: each  *)
(* holds the *registry it loaded from the store between its steps.  One     *)
(* service, one handler goroutine, one sweep.                               *)

\* the service of the step-by-step specification
RaceName == "alpha"

\* its reports: ready, one-second check interval, one allowed failure
RaceHeartbeats ==
    {s \in Heartbeats : s.Ready /\ s.State # Starting
                        /\ s.CheckInterval = 1 /\ s.AllowFailures = 1}

\* the *registry a goroutine holds: the stored object, or one that has been
\* deleted from the store since it was loaded
held(svcs, g) == IF g.live THEN svcs[RaceName] ELSE g.orphan

\* a Delete by the other goroutine turns the pointer g holds into an orphan
orphaned(svcs, g) ==
    IF g.pc \in {"update", "act"} /\ g.live /\ RaceName \in DOMAIN svcs
    THEN [g EXCEPT !.live = FALSE, !.orphan = svcs[RaceName]]
    ELSE g

\* what the Range callback of checkTimeout decides for service at time t
decide(service, t) ==
    IF service.state = Offline
    THEN IF dead(service, t) THEN "purge" ELSE "none"
    ELSE IF timeout(service, t) THEN "offline" ELSE "none"

\* RegistryManager.Startup: the handlers are installed and the timer armed
MgrStartup ==
    /\ timer = "nil"
    /\ timer' = "armed"
    /\ op' = [name |-> "Startup"]
    /\ UNCHANGED <<services, now, events, reply, hnd, swp, shut>>
    /\ UNCHANGED <<smvars, runvars>>

\* RegistryManager.Shutdown: Stop disarms an armed timer and does nothing to
\* one that has fired
MgrShutdown ==
    /\ timer # "nil"
    /\ ~shut
    /\ timer' = IF timer = "armed" THEN "stopped" ELSE timer
    /\ shut' = TRUE
    /\ op' = [name |-> "Shutdown"]
    /\ UNCHANGED <<services, now, events, reply, hnd, swp>>
    /\ UNCHANGED <<smvars, runvars>>

\* handleStatus, first half: the Load; a name not found is registered at once
RaceLoad ==
    \E status \in RaceHeartbeats :
        LET r == register(services, status, now)
            found == status.Name \in DOMAIN services
        IN  /\ timer # "nil"
            /\ hnd.pc = "idle"
            /\ hnd' = IF found
                      THEN [pc |-> "update", status |-> status, live |-> TRUE, orphan |-> nil]
                      ELSE hnd
            /\ services' = IF found THEN services ELSE r.services
            /\ events' = IF found THEN events ELSE r.events
            /\ op' = IF found THEN op ELSE [name |-> "handleStatus", status |-> status]
            /\ UNCHANGED <<now, reply, swp, timer, shut>>
            /\ UNCHANGED <<smvars, runvars>>

\* handleStatus, second half: RegistryManager.update on the *registry loaded;
\* a de-registration orphans the pointer the sweep holds
RaceUpdate ==
    LET r == ManagerUpdate(services, held(services, hnd), hnd.status, now)
    IN  /\ hnd.pc = "update"
        /\ services' = r.services
        /\ events' = r.events
        /\ op' = [name |-> "handleStatus", status |-> hnd.status]
        /\ hnd' = [pc |-> "idle"]
        /\ swp' = IF RaceName \in DOMAIN services /\ RaceName \notin DOMAIN r.services
                  THEN orphaned(Store(services, RaceName,
                                      update(held(services, hnd), hnd.status, now)),
                                swp)
                  ELSE swp
        /\ UNCHANGED <<now, reply, timer, shut>>
        /\ UNCHANGED <<smvars, runvars>>

\* the timer fires and checkTimeout starts
TimerFires ==
    /\ timer = "armed"
    /\ swp.pc = "idle"
    /\ timer' = "expired"
    /\ swp' = [pc |-> "range"]
    /\ UNCHANGED <<services, now, op, events, reply, hnd, shut>>
    /\ UNCHANGED <<smvars, runvars>>

\* checkTimeout: Range reaches the entry and the callback tests its state and
\* dead() or timeout(); with nothing to do the sweep ends in timer.Reset
SweepCheck ==
    LET dec == IF RaceName \in DOMAIN services
               THEN decide(services[RaceName], now)
               ELSE "none"
    IN  /\ swp.pc = "range"
        /\ swp' = IF dec = "none"
                  THEN [pc |-> "idle"]
                  ELSE [pc |-> "act", dec |-> dec, live |-> TRUE, orphan |-> nil]
        /\ timer' = IF dec = "none" THEN "armed" ELSE timer
        /\ UNCHANGED <<services, now, op, events, reply, hnd, shut>>
        /\ UNCHANGED <<smvars, runvars>>

\* checkTimeout: the callback deletes the key, or copies the entry, forces it
\* Offline and notifies; then the sweep ends in timer.Reset
SweepAct ==
    LET service == held(services, swp)
        new == offline(service, now)
    IN  /\ swp.pc = "act"
        /\ services' = IF swp.dec = "purge"
                       THEN Delete(services, RaceName)
                       ELSE IF swp.live
                            THEN [services EXCEPT ![RaceName] = new]
                            ELSE services
        /\ events' = IF swp.dec = "purge"
                     THEN <<[kind |-> "purge", name |-> RaceName,
                             offlineTime |-> service.offlineTime]>>
                     ELSE <<notifyWatched(service, toStatus(new))>>
        /\ op' = [name |-> "checkTimeout"]
        /\ hnd' = IF swp.dec = "purge" THEN orphaned(services, hnd) ELSE hnd
        /\ swp' = [pc |-> "idle"]
        /\ timer' = "armed"
        /\ UNCHANGED <<now, reply, shut>>
        /\ UNCHANGED <<smvars, runvars>>

ListHandleStatus == HandleStatusOf(ListHeartbeats)

----------------------------------------------------------------------------
(* box/meta: the tick-driven state machine *)

\* what atomic.Value.Load returns before the first Store
NilValue == "<nil>"

StateNames == {"A", "B"}
\* the loop() goroutines that Startup can start: it is called at most twice
LoopIds == {1, 2}
\* the ticker sends at most this many ticks
MaxRunTicks == 3
\* State.tickCnt is a uint and wraps; the model keeps its low three bits, which
\* leaves tickCnt % Ticks what it is for every threshold of TicksSet
TickCntWrap == 2 ^ 3
\* the counts of runs and of ticks received are kept up to this value
CountCap == MaxRunTicks + 1
TicksSet == {0, 2}

\* the descriptors passed to RegisterState: nil, unnamed, or named
Descriptors ==
    {[nil |-> TRUE]} \cup
    [nil : {FALSE}, Name : StateNames \cup {""}, Ticks : TicksSet, Action : BOOLEAN]

\* StateMachine.GetState: the type assertion on a nil interface panics
GetState(cur) ==
    IF cur = NilValue THEN [panic |-> TRUE] ELSE [panic |-> FALSE, value |-> cur]

\* StateMachine.MoveToState, on the machine (sts, cur)
MoveToState(sts, cur, s) ==
    IF GetState(cur).panic
    THEN [panic |-> TRUE, current |-> cur]
    ELSE IF GetState(cur).value = s
         THEN [panic |-> FALSE, ret |-> TRUE, current |-> cur]
         ELSE IF s \notin DOMAIN sts
              THEN [panic |-> FALSE, ret |-> FALSE, current |-> cur]
              ELSE [panic |-> FALSE, ret |-> TRUE, current |-> s]

\* StateMachine.RegisterState
RegisterState(sts, d) ==
    IF d.nil \/ d.Name = ""
    THEN [ret |-> FALSE, states |-> sts]
    ELSE [ret |-> TRUE,
          states |-> [n \in DOMAIN sts \cup {d.Name} |->
                        IF n = d.Name
                        THEN [Name |-> d.Name, Ticks |-> d.Ticks,
                              Action |-> d.Action, tickCnt |-> 0]
                        ELSE sts[n]]]

\* StateMachine.Startup, on the machine (sts, start, cur, n loops running)
Startup(sts, start, cur, n) ==
    IF Cardinality(DOMAIN sts) = 0
    THEN [panic |-> FALSE, ret |-> FALSE, current |-> cur, loops |-> n]
    ELSE IF start = ""
         THEN [panic |-> FALSE, ret |-> FALSE, current |-> cur, loops |-> n]
         ELSE IF GetState(cur).panic
              THEN [panic |-> TRUE, current |-> cur, loops |-> n]
              ELSE LET m == IF GetState(cur).value = ""
                            THEN MoveToState(sts, cur, start)
                            ELSE [panic |-> FALSE, ret |-> TRUE, current |-> cur]
                   IN  IF m.panic
                       THEN [panic |-> TRUE, current |-> cur, loops |-> n]
                       ELSE [panic |-> FALSE, ret |-> TRUE,
                             current |-> m.current, loops |-> n + 1]

\* the value recorded for a call's outcome
Outcome(r) == IF r.panic THEN "panic" ELSE IF r.ret THEN "true" ELSE "false"

\* an unrecovered panic ends the process
Alive == ret # "panic"

\* State.trigger, the test made after the increment: does this tick fire
fires(st) == st.Ticks = 0 \/ st.tickCnt % st.Ticks = 0

\* State.trigger, after the action returned: the stopping state closes
\* machine.stopped; close of a closed channel panics
acknowledge(name, stop, closed) ==
    IF stop # "" /\ name = stop
    THEN IF closed
         THEN [panic |-> TRUE, stopped |-> closed]
         ELSE [panic |-> FALSE, stopped |-> TRUE]
    ELSE [panic |-> FALSE, stopped |-> closed]

\* StateMachine.SaveState
SaveState(cur, sav) ==
    IF GetState(cur).panic
    THEN [panic |-> TRUE, saved |-> sav]
    ELSE [panic |-> FALSE, saved |-> GetState(cur).value]

\* StateMachine.RestoreState: the result of MoveToState is dropped
RestoreState(sts, cur, sav) == MoveToState(sts, cur, sav)

\* StateMachine.Shutdown up to the point where it waits or sleeps
ShutdownEnter_noWait(sts, stop, cur, q) ==
    IF q
    THEN [panic |-> TRUE, current |-> cur, quit |-> q, sd |-> "none"]
    ELSE [panic |-> FALSE, current |-> cur, quit |-> TRUE, sd |-> "sleep"]

ShutdownEnter(sts, stop, cur, q) ==
    IF stop # ""
    THEN LET m == MoveToState(sts, cur, stop)
         IN  IF m.panic
             THEN [panic |-> TRUE, current |-> cur, quit |-> q, sd |-> "none"]
             ELSE [panic |-> FALSE, current |-> m.current, quit |-> q, sd |-> "wait"]
    ELSE IF q
         THEN [panic |-> TRUE, current |-> cur, quit |-> q, sd |-> "none"]
         ELSE [panic |-> FALSE, current |-> cur, quit |-> TRUE, sd |-> "sleep"]

\* a loop() goroutine as `go sm.loop()` starts it
NewLoop == [pc |-> "select", st |-> "", rd |-> 0]

\* NewStateMachine: the ticker runs, both channels are open, and current is
\* left as the zero atomic.Value
SMInit ==
    /\ states = <<>>
    /\ starting = ""
    /\ stopping = ""
    /\ saved = ""
    /\ current = NilValue
    /\ loops = 0
    /\ call = [name |-> "NewStateMachine"]
    /\ ret = "void"
    /\ loop = <<>>
    /\ tickC = 0
    /\ ticker = "running"
    /\ quit = FALSE
    /\ stopped = FALSE
    /\ sd = "none"
    /\ runs = [n \in StateNames |-> 0]
    /\ got = [n \in StateNames |-> 0]
    /\ nticks = 0

DoRegisterState ==
    \E d \in Descriptors :
        LET r == RegisterState(states, d)
        IN  /\ Alive
            /\ states' = r.states
            /\ call' = [name |-> "RegisterState", arg |-> d]
            /\ ret' = IF r.ret THEN "true" ELSE "false"
            /\ UNCHANGED <<starting, stopping, saved, current, loops>>
            /\ UNCHANGED <<regvars, runvars, racevars>>

DoSetStartingState ==
    \E state \in StateNames :
        /\ Alive
        /\ starting' = IF state \in DOMAIN states THEN state ELSE starting
        /\ call' = [name |-> "SetStartingState", arg |-> state]
        /\ ret' = IF state \in DOMAIN states THEN "true" ELSE "false"
        /\ UNCHANGED <<states, stopping, saved, current, loops>>
        /\ UNCHANGED <<regvars, runvars, racevars>>

DoSetStoppingState ==
    \E state \in StateNames :
        /\ Alive
        /\ stopping' = IF state \in DOMAIN states THEN state ELSE stopping
        /\ call' = [name |-> "SetStoppingState", arg |-> state]
        /\ ret' = IF state \in DOMAIN states THEN "true" ELSE "false"
        /\ UNCHANGED <<states, starting, saved, current, loops>>
        /\ UNCHANGED <<regvars, runvars, racevars>>

\* "C" is a name that is never registered
DoMoveToState ==
    \E s \in StateNames \cup {"C"} :
        LET r == MoveToState(states, current, s)
        IN  /\ Alive
            /\ current' = r.current
            /\ call' = [name |-> "MoveToState", arg |-> s]
            /\ ret' = Outcome(r)
            /\ UNCHANGED <<states, starting, stopping, saved, loops>>
            /\ UNCHANGED <<regvars, runvars, racevars>>

DoStartup ==
    LET r == Startup(states, starting, current, loops)
    IN  /\ Alive
        /\ loops < Cardinality(LoopIds)
        /\ current' = r.current
        /\ loops' = r.loops
        /\ loop' = IF r.loops > loops THEN Append(loop, NewLoop) ELSE loop
        /\ call' = [name |-> "Startup"]
        /\ ret' = Outcome(r)
        /\ UNCHANGED <<states, starting, stopping, saved>>
        /\ UNCHANGED <<tickC, ticker, quit, stopped, sd, runs, got, nticks>>
        /\ UNCHANGED <<regvars, racevars>>

DoSaveState ==
    LET r == SaveState(current, saved)
    IN  /\ Alive
        /\ saved' = r.saved
        /\ call' = [name |-> "SaveState"]
        /\ ret' = IF r.panic THEN "panic" ELSE "void"
        /\ UNCHANGED <<states, starting, stopping, current, loops>>
        /\ UNCHANGED <<regvars, runvars, racevars>>

DoRestoreState ==
    LET r == RestoreState(states, current, saved)
    IN  /\ Alive
        /\ current' = r.current
        /\ call' = [name |-> "RestoreState"]
        /\ ret' = IF r.panic THEN "panic" ELSE "void"
        /\ UNCHANGED <<states, starting, stopping, saved, loops>>
        /\ UNCHANGED <<regvars, runvars, racevars>>

\* StateMachine.Pause
Pause ==
    /\ Alive
    /\ ticker' = "stopped"
    /\ call' = [name |-> "Pause"]
    /\ ret' = "void"
    /\ UNCHANGED <<states, starting, stopping, saved, current, loops>>
    /\ UNCHANGED <<loop, tickC, quit, stopped, sd, runs, got, nticks>>
    /\ UNCHANGED <<regvars, racevars>>

\* StateMachine.Resume
Resume ==
    /\ Alive
    /\ ticker' = "running"
    /\ call' = [name |-> "Resume"]
    /\ ret' = "void"
    /\ UNCHANGED <<states, starting, stopping, saved, current, loops>>
    /\ UNCHANGED <<loop, tickC, quit, stopped, sd, runs, got, nticks>>
    /\ UNCHANGED <<regvars, racevars>>

\* Shutdown is called: it moves to the stopping state and waits for
\* machine.stopped, or closes quit at once when there is no stopping state
ShutdownCall ==
    LET r == ShutdownEnter(states, stopping, current, quit)
    IN  /\ Alive
        /\ sd \in {"none", "returned"}
        /\ current' = r.current
        /\ quit' = r.quit
        /\ sd' = r.sd
        /\ call' = [name |-> "Shutdown"]
        /\ ret' = IF r.panic THEN "panic" ELSE "pending"
        /\ UNCHANGED <<states, starting, stopping, saved, loops>>
        /\ UNCHANGED <<loop, tickC, ticker, stopped, runs, got, nticks>>
        /\ UNCHANGED <<regvars, racevars>>

\* Shutdown receives from machine.stopped and closes quit
ShutdownAcked ==
    /\ Alive
    /\ sd = "wait"
    /\ stopped
    /\ quit' = TRUE
    /\ sd' = IF quit THEN sd ELSE "sleep"
    /\ call' = [name |-> "Shutdown"]
    /\ ret' = IF quit THEN "panic" ELSE "pending"
    /\ UNCHANGED <<states, starting, stopping, saved, current, loops>>
    /\ UNCHANGED <<loop, tickC, ticker, stopped, runs, got, nticks>>
    /\ UNCHANGED <<regvars, racevars>>

\* Shutdown's 100 ms sleep ends, it stops the ticker and returns
ShutdownReturn ==
    /\ Alive
    /\ sd = "sleep"
    /\ ticker' = "stopped"
    /\ sd' = "returned"
    /\ call' = [name |-> "Shutdown"]
    /\ ret' = "void"
    /\ UNCHANGED <<states, starting, stopping, saved, current, loops>>
    /\ UNCHANGED <<loop, tickC, quit, stopped, runs, got, nticks>>
    /\ UNCHANGED <<regvars, racevars>>

\* the ticker sends on its channel of capacity 1; a tick that finds the
\* channel full is dropped
Tick ==
    /\ Alive
    /\ ticker = "running"
    /\ tickC = 0
    /\ nticks < MaxRunTicks
    /\ tickC' = 1
    /\ nticks' = nticks + 1
    /\ UNCHANGED smvars
    /\ UNCHANGED <<loop, ticker, quit, stopped, sd, runs, got>>
    /\ UNCHANGED <<regvars, racevars>>

\* the ticker as it runs for as long as the process does
LiveTick ==
    /\ Alive
    /\ ticker = "running"
    /\ tickC = 0
    /\ tickC' = 1
    /\ UNCHANGED smvars
    /\ UNCHANGED <<loop, ticker, quit, stopped, sd, runs, got, nticks>>
    /\ UNCHANGED <<regvars, racevars>>

\* the one call of Startup, and the one call of Shutdown that a caller makes
\* on the started machine
FirstStartup == loops = 0 /\ DoStartup

FirstShutdown == sd = "none" /\ loops > 0 /\ ShutdownCall

\* loop(): the select takes the tick; StateMachine.trigger looks the current
\* state up and State.trigger reads its tick counter
LoopTick ==
    \E i \in DOMAIN loop :
        LET g == GetState(current)
            found == ~g.panic /\ g.value \in DOMAIN states
        IN  /\ Alive
            /\ loop[i].pc = "select"
            /\ tickC = 1
            /\ tickC' = 0
            /\ loop' = IF found
                       THEN [loop EXCEPT ![i] = [pc |-> "inc", st |-> g.value,
                                                 rd |-> states[g.value].tickCnt]]
                       ELSE loop
            /\ call' = IF found THEN call ELSE [name |-> "loop"]
            /\ ret' = IF found THEN ret ELSE "panic"
            /\ UNCHANGED <<states, starting, stopping, saved, current, loops>>
            /\ UNCHANGED <<ticker, quit, stopped, sd, runs, got, nticks>>
            /\ UNCHANGED <<regvars, racevars>>

\* State.trigger: the counter is written back, and the action starts when
\* this tick fires and the state has one
LoopInc ==
    \E i \in DOMAIN loop :
        LET n == loop[i].st
            st == [states[n] EXCEPT !.tickCnt = (loop[i].rd + 1) % TickCntWrap]
        IN  /\ Alive
            /\ loop[i].pc = "inc"
            /\ states' = [states EXCEPT ![n] = st]
            /\ got' = [got EXCEPT ![n] = IF @ < CountCap THEN @ + 1 ELSE @]
            /\ loop' = [loop EXCEPT ![i].pc =
                            IF fires(st) /\ st.Action THEN "action" ELSE "select"]
            /\ UNCHANGED <<starting, stopping, saved, current, loops, call, ret>>
            /\ UNCHANGED <<tickC, ticker, quit, stopped, sd, runs, nticks>>
            /\ UNCHANGED <<regvars, racevars>>

\* State.trigger: the action returns, and the stopping state acknowledges
LoopActionEnd ==
    \E i \in DOMAIN loop :
        LET n == loop[i].st
            a == acknowledge(n, stopping, stopped)
        IN  /\ Alive
            /\ loop[i].pc = "action"
            /\ runs' = [runs EXCEPT ![n] = IF @ < CountCap THEN @ + 1 ELSE @]
            /\ stopped' = a.stopped
            /\ loop' = [loop EXCEPT ![i].pc = IF a.panic THEN "panic" ELSE "select"]
            /\ call' = IF a.panic THEN [name |-> "loop"] ELSE call
            /\ ret' = IF a.panic THEN "panic" ELSE ret
            /\ UNCHANGED <<states, starting, stopping, saved, current, loops>>
            /\ UNCHANGED <<tickC, ticker, quit, sd, got, nticks>>
            /\ UNCHANGED <<regvars, racevars>>

\* loop(): the select takes the closed quit channel and the goroutine returns
LoopQuit ==
    \E i \in DOMAIN loop :
        /\ Alive
        /\ loop[i].pc = "select"
        /\ quit
        /\ loop' = [loop EXCEPT ![i].pc = "exit"]
        /\ UNCHANGED smvars
        /\ UNCHANGED <<tickC, ticker, quit, stopped, sd, runs, got, nticks>>
        /\ UNCHANGED <<regvars, racevars>>

\* NewRegistryManager: no timer yet, no handler running
RaceInit ==
    /\ hnd = [pc |-> "idle"]
    /\ swp = [pc |-> "idle"]
    /\ timer = "nil"
    /\ shut = FALSE

Init == RegInit /\ SMInit /\ RaceInit

Next ==
    \/ Advance
    \/ HandleStatus
    \/ Sweep
    \/ HandleQueryStatus

Spec == Init /\ [][Next]_vars

\* two services with the default check options, at one instant
ListNext ==
    \/ ListHandleStatus
    \/ Sweep
    \/ HandleQueryStatusList

SpecList == Init /\ [][ListNext]_vars

\* the state machine: configuration, then the public calls
MachineNext ==
    \/ DoRegisterState
    \/ DoSetStartingState
    \/ DoSetStoppingState
    \/ DoMoveToState
    \/ DoStartup
    \/ DoSaveState
    \/ DoRestoreState

SpecMachine == Init /\ [][MachineNext]_vars

\* a configured machine whose current slot holds the empty string, the value
\* Startup tests for: two states, A the starting state, B the stopping state
\* when there is one
RunInit ==
    /\ RegInit
    /\ RaceInit
    /\ \E ta \in TicksSet, tb \in TicksSet, ab \in BOOLEAN :
          states = [n \in StateNames |->
                      IF n = "A"
                      THEN [Name |-> "A", Ticks |-> ta, Action |-> TRUE, tickCnt |-> 0]
                      ELSE [Name |-> "B", Ticks |-> tb, Action |-> ab, tickCnt |-> 0]]
    /\ starting = "A"
    /\ stopping \in {"", "B"}
    /\ saved = ""
    /\ current = ""
    /\ loops = 0
    /\ call = [name |-> "SetStoppingState"]
    /\ ret = "true"
    /\ loop = <<>>
    /\ tickC = 0
    /\ ticker = "running"
    /\ quit = FALSE
    /\ stopped = FALSE
    /\ sd = "none"
    /\ runs = [n \in StateNames |-> 0]
    /\ got = [n \in StateNames |-> 0]
    /\ nticks = 0

\* the running machine: public calls from one caller, the ticker, the loops
RunNext ==
    \/ DoStartup
    \/ DoMoveToState
    \/ Pause
    \/ Resume
    \/ ShutdownCall
    \/ ShutdownAcked
    \/ ShutdownReturn
    \/ Tick
    \/ LoopTick
    \/ LoopInc
    \/ LoopActionEnd
    \/ LoopQuit

SpecRun == RunInit /\ [][RunNext]_vars

\* the machine that is started and shut down, never paused and never moved by
\* another caller, with a ticker that does not run out
LiveNext ==
    \/ FirstStartup
    \/ FirstShutdown
    \/ ShutdownAcked
    \/ ShutdownReturn
    \/ LiveTick
    \/ LoopTick
    \/ LoopInc
    \/ LoopActionEnd
    \/ LoopQuit

\* the runtime delivers ticks while the ticker runs, schedules every runnable
\* goroutine, and an action that has started returns
LiveFairness ==
    /\ WF_vars(LiveTick)
    /\ WF_vars(LoopTick)
    /\ WF_vars(LoopInc)
    /\ WF_vars(LoopActionEnd)
    /\ WF_vars(LoopQuit)
    /\ WF_vars(ShutdownAcked)
    /\ WF_vars(ShutdownReturn)

SpecLive == RunInit /\ [][LiveNext]_vars /\ LiveFairness

\* the registry with the handler and the sweep interleaved
RaceNext ==
    \/ Advance
    \/ MgrStartup
    \/ MgrShutdown
    \/ RaceLoad
    \/ RaceUpdate
    \/ TimerFires
    \/ SweepCheck
    \/ SweepAct

SpecRace == Init /\ [][RaceNext]_vars

----------------------------------------------------------------------------
(* Properties of the registry *)

\* the notifications for service S among ev, in order
NotifsFor(ev, S) == SelectSeq(ev, LAMBDA e : e.kind = "notify" /\ e.name = S)

\* the step is one run of checkTimeout
SweepStep == op'.name = "checkTimeout" /\ now' = now

\* the step is one run of handleStatus, on the report op'.status
ReportStep == op'.name = "handleStatus" /\ now' = now

\* the entry named by a report was in the store before the report was handled
WasTracked(ev) == \A i \in 1..Len(ev) : ev[i].kind # "store"

\* C1: a sweep that finds an Online entry whose last update is more than
\* interval * threshold ms old sets it Offline and not ready and emits exactly
\* one notification Online -> Offline for it; a sweep emits no notification
\* for an entry that is already Offline.
C1_TimeoutForcesOffline ==
    [][SweepStep =>
        \A S \in DOMAIN services :
            /\ (/\ services[S].state = Online
                /\ now - services[S].updateTime
                     > services[S].interval * services[S].threshold)
               => /\ S \in DOMAIN services'
                  /\ services'[S].state = Offline
                  /\ services'[S].ready = FALSE
                  /\ NotifsFor(events', S) =
                       <<[kind |-> "notify", name |-> S,
                          oldState |-> Online, oldReady |-> services[S].ready,
                          newState |-> Offline, newReady |-> FALSE]>>
            /\ services[S].state = Offline => NotifsFor(events', S) = <<>>
      ]_vars

\* C1 witness: the sweep has just forced an Online entry Offline
C1_Witness ==
    /\ op.name = "checkTimeout"
    /\ \E S \in DOMAIN services :
        /\ services[S].state = Offline
        /\ services[S].offlineTime = now
        /\ \E i \in 1..Len(events) :
            /\ events[i].kind = "notify" /\ events[i].name = S
            /\ events[i].oldState = Online /\ events[i].newState = Offline

\* C2: a sweep that finds an Offline entry with now - offlineTime >
\* interval * purgeDelay deletes it, and queryStatus for a name that is not
\* in the store answers "service name does not exist".
C2_DeadIsPurged ==
    [][/\ SweepStep =>
            \A S \in DOMAIN services :
                (/\ services[S].state = Offline
                 /\ now - services[S].offlineTime
                      > services[S].interval * services[S].purgeDelay)
                => S \notin DOMAIN services'
       /\ (/\ op'.name = "handleQueryStatus"
           /\ op'.req.ok
           /\ op'.req.Name \notin DOMAIN services')
          => reply' = [kind |-> "error", message |-> "service name does not exist"]
      ]_vars

\* C2 witness: a query right after the sweep purged an entry that an earlier
\* sweep had forced Offline
C2_Witness ==
    /\ op.name = "handleQueryStatus"
    /\ op.req.ok
    /\ Len(events) = 1
    /\ events[1].kind = "purge"
    /\ events[1].name = op.req.Name
    /\ events[1].offlineTime >= StartTime
    /\ reply = [kind |-> "error", message |-> "service name does not exist"]

\* C3: whenever an entry enters Offline (by the sweep, by a report on a
\* tracked service, or by a registering report) its offlineTime is the time
\* of that step.
C3_OfflineTimeIsEntryTime ==
    [][\A S \in DOMAIN services' :
          (/\ services'[S].state = Offline
           /\ (S \notin DOMAIN services \/ services[S].state # Offline))
          => services'[S].offlineTime = now'
      ]_vars

\* C4: between handlers the store holds no entry whose state is Stopped.
C4_NoStoppedEntry ==
    \A S \in DOMAIN services : services[S].state # Stopped

\* C5: a Stopped report on a tracked service whose stored state or ready
\* differs from the report emits the notification first and deletes the entry
\* second, and nothing else.
C5_NotifyThenDelete ==
    [][(/\ ReportStep
        /\ op'.status.State = Stopped
        /\ op'.status.Name \in DOMAIN services
        /\ \/ services[op'.status.Name].state # op'.status.State
           \/ services[op'.status.Name].ready # op'.status.Ready)
       => /\ events' =
               <<[kind |-> "notify", name |-> op'.status.Name,
                  oldState |-> services[op'.status.Name].state,
                  oldReady |-> services[op'.status.Name].ready,
                  newState |-> Stopped, newReady |-> op'.status.Ready],
                 [kind |-> "delete", name |-> op'.status.Name]>>
          /\ op'.status.Name \notin DOMAIN services'
      ]_vars

\* C5 witness: a Stopped report on a tracked service has notified and deleted
C5_Witness ==
    /\ op.name = "handleStatus"
    /\ op.status.State = Stopped
    /\ Len(events) = 2
    /\ events[1].kind = "notify" /\ events[1].newState = Stopped
    /\ events[2].kind = "delete"
    /\ op.status.Name \notin DOMAIN services

\* C6: after a non-Stopped report on a tracked service the stored state and
\* ready are those of the report, and a queryStatus that follows returns them.
C6_ReportOverwrites ==
    [][/\ (/\ op'.name = "handleStatus"
           /\ op'.status.State # Stopped
           /\ WasTracked(events'))
          => /\ op'.status.Name \in DOMAIN services'
             /\ services'[op'.status.Name].state = op'.status.State
             /\ services'[op'.status.Name].ready = op'.status.Ready
       /\ (/\ op.name = "handleStatus"
           /\ op.status.State # Stopped
           /\ WasTracked(events)
           /\ op'.name = "handleQueryStatus"
           /\ op'.req.ok
           /\ op'.req.Name = op.status.Name)
          => /\ reply'.kind = "status"
             /\ reply'.status.State = op.status.State
             /\ reply'.status.Ready = op.status.Ready
      ]_vars

\* C7: of two consecutive reports for a tracked service, the second emits no
\* notification when its state and ready equal the first's, and exactly one
\* when they differ.
C7_NotifyIffChanged ==
    [][(/\ op.name = "handleStatus"
        /\ ReportStep
        /\ op'.status.Name = op.status.Name
        /\ op.status.Name \in DOMAIN services)
       => IF /\ op'.status.State = op.status.State
             /\ op'.status.Ready = op.status.Ready
          THEN NotifsFor(events', op'.status.Name) = <<>>
          ELSE Len(NotifsFor(events', op'.status.Name)) = 1
      ]_vars

\* C8: after a report the entry's interval is 1000 * the report's
\* checkInterval when that is non-zero, else what it was (the default * 1000
\* for a new entry); likewise the threshold with allowFailures.
C8_StickyIntervalInMs ==
    [][(ReportStep /\ op'.status.Name \in DOMAIN services')
       => LET st  == op'.status
              new == services'[st.Name]
          IN  /\ new.interval =
                   IF st.CheckInterval # 0 THEN 1000 * st.CheckInterval
                   ELSE IF st.Name \in DOMAIN services
                        THEN services[st.Name].interval
                        ELSE StatusReportInterval * 1000
              /\ new.threshold =
                   IF st.AllowFailures # 0 THEN st.AllowFailures
                   ELSE IF st.Name \in DOMAIN services
                        THEN services[st.Name].threshold
                        ELSE StatusLostThreshold
      ]_vars

\* the elements of a sequence
Range(q) == {q[i] : i \in 1..Len(q)}

\* no element occurs twice
NoRepeat(q) == \A i, j \in 1..Len(q) : i # j => q[i] # q[j]

\* C9: queryStatusList answers with snapshots of stored entries; without a
\* whitelist there is one per entry (as many as Count()); with a whitelist
\* the names answered are those in both the whitelist and the store, one
\* snapshot each when the whitelist names nothing twice.
C9_QueryList ==
    (op.name = "handleQueryStatusList" /\ op.req.ok)
    => /\ reply.kind = "list"
       /\ LET L == reply.services
              W == op.req.Observed
          IN  /\ \A i \in 1..Len(L) :
                    /\ L[i].Name \in DOMAIN services
                    /\ L[i] = [Name |-> L[i].Name,
                               Domain |-> services[L[i].Name].domain,
                               State |-> services[L[i].Name].state,
                               Time |-> services[L[i].Name].updateTime,
                               Ready |-> services[L[i].Name].ready]
              /\ IF ~op.req.present \/ W = <<>>
                 THEN /\ Len(L) = Cardinality(DOMAIN services)
                      /\ {L[i].Name : i \in 1..Len(L)} = DOMAIN services
                 ELSE /\ {L[i].Name : i \in 1..Len(L)} = Range(W) \cap DOMAIN services
                      /\ NoRepeat(W) =>
                            Len(L) = Cardinality(Range(W) \cap DOMAIN services)

\* C9 witness: a whitelist of one known and one unknown name got one entry
C9_Witness ==
    /\ op.name = "handleQueryStatusList"
    /\ op.req.ok /\ op.req.present
    /\ Len(op.req.Observed) = 2
    /\ Cardinality(Range(op.req.Observed) \cap DOMAIN services) = 1
    /\ Cardinality(Range(op.req.Observed) \ DOMAIN services) = 1
    /\ Len(reply.services) = 1

----------------------------------------------------------------------------
(* Properties of the state machine *)

\* C10: Startup on a machine with a registered state and a starting state
\* returns true with the current state the starting state; without either it
\* returns false and starts no loop; it never faults.
C10_StartupContract ==
    call.name = "Startup"
    => IF DOMAIN states # {} /\ starting # ""
       THEN ret = "true" /\ current = starting /\ loops = 1
       ELSE ret = "false" /\ loops = 0

----------------------------------------------------------------------------
(* Properties of the running state machine *)

started(n) ==
    runs[n] + Cardinality({i \in DOMAIN loop : loop[i].pc = "action" /\ loop[i].st = n})

C14_MoveToStateContract ==
    [][call'.name = "MoveToState"
       => LET s == call'.arg
          IN  /\ s = current
                 => ret' = "true" /\ current' = current /\ states' = states
              /\ (s # current /\ s \notin DOMAIN states)
                 => ret' = "false" /\ current' = current
              /\ current' # current => current' \in DOMAIN states]_vars

\* C15: SaveState records the current state, and a RestoreState that follows
\* a SaveState made in state X (with only moves in between) makes X the
\* current state again; in particular SaveState then RestoreState leaves the
\* current state as it was
C15_SaveRestore ==
    [][/\ call'.name = "SaveState"
          => ret' = "void" /\ saved' = current /\ current' = current
       /\ (call'.name = "RestoreState" /\ saved # "")
          => ret' = "void" /\ current' = saved]_vars

----------------------------------------------------------------------------
(* Properties of the registry with the handler and the sweep interleaved *)

\* the sweep's callback carries out what it decided
SweepActs == swp.pc = "act" /\ swp'.pc = "idle"

\* a handleStatus call for a report that is not Stopped returns from update
ReportReturns == hnd.pc = "update" /\ hnd'.pc = "idle" /\ hnd.status.State # Stopped

\* C17: when the sweep writes Offline into an entry, more than interval *
\* threshold ms have passed, at that moment, since the entry's latest report
C17_OfflineOnlyWhenTimedOut ==
    [][(SweepActs /\ swp.dec = "offline")
       => timeout(held(services, swp), now)]_vars

\* C18: no report is lost to a purge: when handleStatus returns from a report
\* that is not Stopped the service is in the store, and the entry a sweep
\* deletes is one that no report has revived since the sweep looked at it
C18_NoReportLost ==
    [][/\ ReportReturns => RaceName \in DOMAIN services'
       /\ (SweepActs /\ swp.dec = "purge" /\ RaceName \in DOMAIN services)
          => services[RaceName].state = Offline]_vars

\* C19: once Shutdown has returned the sweep timer is not armed, so no sweep
\* starts, also when a sweep was running while Shutdown was called
C19_NoSweepAfterShutdown == shut => timer # "armed"

----------------------------------------------------------------------------
(* Liveness of the state machine's Shutdown *)

====
